---- MODULE Spec2Model ----
(***************************************************************************)
(* A model of flac_belcher: the cue-sheet parser (cue.py), the text        *)
(* decoder (utils.py), the ffmpeg command synthesizer (music_cmd.py) and   *)
(* the directory walker with its process pool (main.py).                   *)
(*                                                                         *)
(* Python str values are TLA+ strings.  A bytes object is a string whose   *)
(* characters each stand for one byte: an ASCII character is its own byte, *)
(* and "@" stands for the byte 0xE9, which is not valid UTF-8 on its own.  *)
(* In decoded text "^" stands for U+00E9 and "#" for U+FFFD.               *)
(* Times are kept in hundredths of a second: the float 125.5 is 12550.     *)
(***************************************************************************)
EXTENDS Integers, Sequences, FiniteSets, TLC

VARIABLES
    pc,             \* position of the single thread of control
    content_bytes,  \* parse_cue: the bytes read from the cue file
    content_text,   \* parse_cue: the decoder's result
    parsed,         \* parse_cue: what it returned (or raised)
    tracks,         \* make_split_cmd: its argument
    cmds,           \* make_split_cmd: the commands built so far / the batch
    dry_run,        \* --dry_run
    total_subdirs,  \* process_music_directory: number of directories of the walk
    counter,        \* process_music_directory: directories visited so far
    files,          \* the file names os.walk lists for the current directory
    mode,           \* which branch handled the current directory
    cue_idx,        \* process_cue_files: index of the cue of the current iteration
    processed_files,\* process_cue_files: audio files already split
    formats,        \* process_cue_files: suffixes of the audio files split
    total_formats,  \* process_music_directory: suffixes over every directory
    bad_cues,       \* process_cue_files: cues recorded as bad
    all_bad_cues,   \* process_music_directory: bad cues of every directory
    only_cue_dirs,  \* process_music_directory: directories holding only cues
    submitted,      \* execute_commands: number of commands handed to the pool
    pool,           \* ProcessPoolExecutor: state of every submitted command
    source_ref,     \* output directories whose source_ref.txt has been written
    raised          \* the exception that ended the run, "" while there is none

vars == <<pc, content_bytes, content_text, parsed, tracks, cmds, dry_run,
          total_subdirs, counter, files, mode, cue_idx, processed_files,
          formats, total_formats, bad_cues, all_bad_cues, only_cue_dirs,
          submitted, pool, source_ref, raised>>

(***************************************************************************)
(* Bounds of the model.                                                    *)
(***************************************************************************)
MaxTracks == 2
MaxDirs == 2
CpuCount == 2

(***************************************************************************)
(* Python str operations.                                                  *)
(***************************************************************************)
CharAt(s, i) == SubSeq(s, i, i)

StartsWith(s, p) == Len(s) >= Len(p) /\ SubSeq(s, 1, Len(p)) = p

EndsWith(s, p) == Len(s) >= Len(p) /\ SubSeq(s, Len(s) - Len(p) + 1, Len(s)) = p

\* the leftmost (rightmost) position of character c in s[lo..hi], 0 when absent
RECURSIVE FindIn(_, _, _, _)
FindIn(s, c, lo, hi) ==
    IF lo > hi THEN 0
    ELSE IF lo = hi THEN (IF CharAt(s, lo) = c THEN lo ELSE 0)
    ELSE LET mid == (lo + hi) \div 2
             left == FindIn(s, c, lo, mid)
         IN  IF left # 0 THEN left ELSE FindIn(s, c, mid + 1, hi)

RECURSIVE RFindIn(_, _, _, _)
RFindIn(s, c, lo, hi) ==
    IF lo > hi THEN 0
    ELSE IF lo = hi THEN (IF CharAt(s, lo) = c THEN lo ELSE 0)
    ELSE LET mid == (lo + hi) \div 2
             right == RFindIn(s, c, mid + 1, hi)
         IN  IF right # 0 THEN right ELSE RFindIn(s, c, lo, mid)

\* s.find(c, i) for a single character c; 0 when absent (positions are 1-based)
Find(s, c, i) == FindIn(s, c, i, Len(s))

\* s.rfind(c, 0, i)
RFind(s, c, i) == RFindIn(s, c, 1, i)

\* s.split(c): every occurrence of c separates two (possibly empty) pieces
RECURSIVE Split(_, _)
Split(s, c) ==
    LET k == Find(s, c, 1)
    IN  IF k = 0 THEN <<s>>
        ELSE <<SubSeq(s, 1, k - 1)>> \o Split(SubSeq(s, k + 1, Len(s)), c)

\* c.join(parts)
RECURSIVE Join(_, _)
Join(parts, c) ==
    IF Len(parts) = 0 THEN ""
    ELSE IF Len(parts) = 1 THEN parts[1]
    ELSE parts[1] \o c \o Join(Tail(parts), c)

\* s.replace(c, r) for a single character c
RECURSIVE Replace(_, _, _)
Replace(s, c, r) ==
    LET k == Find(s, c, 1)
    IN  IF k = 0 THEN s
        ELSE SubSeq(s, 1, k - 1) \o r \o Replace(SubSeq(s, k + 1, Len(s)), c, r)

\* s.strip(): the text holds no other whitespace than " " inside a line
RECURSIVE LStrip(_)
LStrip(s) == IF Len(s) > 0 /\ CharAt(s, 1) = " " THEN LStrip(Tail(s)) ELSE s

RECURSIVE RStrip(_)
RStrip(s) ==
    IF Len(s) > 0 /\ CharAt(s, Len(s)) = " "
    THEN RStrip(SubSeq(s, 1, Len(s) - 1)) ELSE s

Strip(s) == RStrip(LStrip(s))

\* s.splitlines(): no line for the empty text, none after a final newline
SplitLines(s) ==
    IF s = "" THEN <<>>
    ELSE LET parts == Split(s, "\n")
         IN  IF parts[Len(parts)] = "" THEN SubSeq(parts, 1, Len(parts) - 1)
             ELSE parts

\* seq[i:] and seq[i:-1] of a list, i counted from 0 as in Python
From(seq, i) == SubSeq(seq, i + 1, Len(seq))

FromButLast(seq, i) == SubSeq(seq, i + 1, Len(seq) - 1)

Digit(c) ==
    CASE c = "0" -> 0 [] c = "1" -> 1 [] c = "2" -> 2 [] c = "3" -> 3
      [] c = "4" -> 4 [] c = "5" -> 5 [] c = "6" -> 6 [] c = "7" -> 7
      [] c = "8" -> 8 [] c = "9" -> 9 [] OTHER -> -1

\* int(s, 10) of an unsigned decimal literal; -1 stands for ValueError
RECURSIVE ParseInt(_, _)
ParseInt(s, acc) ==
    IF s = "" THEN acc
    ELSE IF Digit(CharAt(s, 1)) < 0 THEN -1
    ELSE ParseInt(Tail(s), 10 * acc + Digit(CharAt(s, 1)))

Int10(s) == IF s = "" THEN -1 ELSE ParseInt(s, 0)

\* "%.2d" % n: at least two digits, the sign in front
Fmt2(n) ==
    IF n < 0 THEN "-" \o (IF -n < 10 THEN "0" \o ToString(-n) ELSE ToString(-n))
    ELSE IF n < 10 THEN "0" \o ToString(n)
    ELSE ToString(n)

\* dict[key] = value
Put(d, k, v) == (k :> v) @@ d

EmptyDict == [k \in {} |-> ""]

(***************************************************************************)
(* utils.py: decode_bytes_with_fallback.                                   *)
(***************************************************************************)
None == [none |-> TRUE, text |-> ""]

Some(t) == [none |-> FALSE, text |-> t]

\* chardet's confidence is kept in hundredths; the code compares with 0.8
ConfidenceThreshold == 80

\* bytes.decode(encoding) with the default errors="strict": None stands for
\* the exception (UnicodeDecodeError, or LookupError for an unknown codec)
BytesDecode(bytes, encoding) ==
    IF encoding \in {"utf-8", "ascii", "us-ascii"}
    THEN IF Find(bytes, "@", 1) = 0 THEN Some(bytes) ELSE None
    ELSE IF encoding \in {"iso-8859-1", "ISO-8859-1"}
    THEN Some(Replace(bytes, "@", "^"))
    ELSE None

\* bytes.decode('utf-8', errors='replace'): total, never raises
BytesDecodeReplace(bytes) == Some(Replace(bytes, "@", "#"))

\* encoding_m is what magic reports, encoding_d and confidence_d what chardet
\* reports ("" stands for chardet's encoding None)
decode_bytes_with_fallback(bytes, encoding_m, encoding_d, confidence_d) ==
    LET first  == IF encoding_d # "" /\ confidence_d > ConfidenceThreshold
                  THEN BytesDecode(bytes, encoding_d) ELSE None
        second == IF encoding_m # "" THEN BytesDecode(bytes, encoding_m) ELSE None
        third  == IF encoding_d # "" THEN BytesDecode(bytes, encoding_d) ELSE None
    IN  IF ~first.none THEN first
        ELSE IF ~second.none THEN second
        ELSE IF ~third.none THEN third
        ELSE BytesDecodeReplace(bytes)

(***************************************************************************)
(* cue.py: parse_cue.  The accumulator of the line loop is the record      *)
(* [general, tracks, exc]; exc names the exception raised, "" for none.    *)
(***************************************************************************)
\* " ".join(line.split(" ")[n:]).replace('"', "")
Unquoted(line, n) == Replace(Join(From(Split(line, " "), n), " "), "\"", "")

\* lines 22-32: the album-level directives
HeaderFields(general, line) ==
    LET g1 == IF StartsWith(line, "REM GENRE ")
              THEN Put(general, "genre", Unquoted(line, 2)) ELSE general
        g2 == IF StartsWith(line, "REM DATE ")
              THEN Put(g1, "date", Join(From(Split(line, " "), 2), " ")) ELSE g1
        g3 == IF StartsWith(line, "PERFORMER ")
              THEN Put(g2, "artist", Unquoted(line, 1)) ELSE g2
        g4 == IF StartsWith(line, "TITLE ")
              THEN Put(g3, "album", Unquoted(line, 1)) ELSE g3
        sp == Split(line, " ")
    IN  IF StartsWith(line, "FILE ")
        THEN Put(Put(g4, "file", Replace(Join(FromButLast(sp, 1), " "), "\"", "")),
                 "file_type", sp[Len(sp)])
        ELSE g4

\* a faulty gate: any FILE directive opens the track directives, BINARY too
TrackGateAnyFile(general) == "file_type" \in DOMAIN general

\* line 34: track directives count only after a FILE that is not BINARY
TrackGate(general) ==
    "file_type" \in DOMAIN general /\ general["file_type"] \notin {"BINARY"}

\* tracks[-1][key] = value; IndexError on an empty list
SetLast(st, key, value) ==
    IF st.exc # "" THEN st
    ELSE IF Len(st.tracks) = 0 THEN [st EXCEPT !.exc = "IndexError"]
    ELSE [st EXCEPT !.tracks[Len(st.tracks)] = Put(@, key, value)]

\* lines 35-39
TrackDirective(st, line) ==
    IF st.exc # "" \/ ~StartsWith(line, "  TRACK ") THEN st
    ELSE LET sp == Split(Strip(line), " ")
         IN  IF Len(sp) < 2 THEN [st EXCEPT !.exc = "IndexError"]
             ELSE IF Int10(sp[2]) < 0 THEN [st EXCEPT !.exc = "ValueError"]
             ELSE [st EXCEPT !.tracks =
                      Append(@, Put(st.general, "track", Int10(sp[2])))]

\* lines 41-48
TrackTitle(st, line) ==
    IF StartsWith(line, "    TITLE ")
    THEN SetLast(st, "title", Unquoted(Strip(line), 1)) ELSE st

TrackPerformer(st, line) ==
    IF StartsWith(line, "    PERFORMER ")
    THEN SetLast(st, "artist", Unquoted(Strip(line), 1)) ELSE st

\* lines 49-56: 60 * t[0] + t[1] + t[2] / 100.0, in hundredths of a second
TrackIndex(st, line) ==
    IF st.exc # "" \/ ~StartsWith(line, "    INDEX 01 ") THEN st
    ELSE LET parts == Split(Unquoted(Strip(line), 2), ":")
             t == [i \in 1..Len(parts) |-> Int10(parts[i])]
         IN  IF \E i \in 1..Len(t) : t[i] < 0
             THEN [st EXCEPT !.exc = "ValueError"]
             ELSE IF Len(st.tracks) = 0 \/ Len(t) < 3
             THEN [st EXCEPT !.exc = "IndexError"]
             ELSE SetLast(st, "start", 6000 * t[1] + 100 * t[2] + t[3])

\* one iteration of the loop of lines 21-56
ParseLine(st, line) ==
    IF st.exc # "" THEN st
    ELSE LET g == HeaderFields(st.general, line)
             s0 == [st EXCEPT !.general = g]
         IN  IF TrackGate(g)
             THEN TrackIndex(TrackPerformer(TrackTitle(TrackDirective(s0, line), line), line), line)
             ELSE s0

RECURSIVE ParseLines(_, _, _)
ParseLines(st, d, i) ==
    IF i > Len(d) THEN st ELSE ParseLines(ParseLine(st, d[i]), d, i + 1)

\* a faulty second pass: the loop runs over every track and the difference is
\* stored on the later track of each pair
RECURSIVE DurationsOnNext(_, _)
DurationsOnNext(st, i) ==
    IF st.exc # "" \/ i >= Len(st.tracks) THEN st
    ELSE IF "start" \notin DOMAIN st.tracks[i + 1] \/ "start" \notin DOMAIN st.tracks[i]
    THEN [st EXCEPT !.exc = "KeyError"]
    ELSE DurationsOnNext([st EXCEPT !.tracks[i + 1] =
                             Put(@, "duration",
                                 st.tracks[i + 1]["start"] - st.tracks[i]["start"])],
                         i + 1)

\* lines 58-60: every track but the last gets its duration
RECURSIVE Durations(_, _)
Durations(st, i) ==
    IF st.exc # "" \/ i >= Len(st.tracks) THEN st
    ELSE IF "start" \notin DOMAIN st.tracks[i + 1] \/ "start" \notin DOMAIN st.tracks[i]
    THEN [st EXCEPT !.exc = "KeyError"]
    ELSE Durations([st EXCEPT !.tracks[i] =
                       Put(@, "duration", st.tracks[i + 1]["start"] - st.tracks[i]["start"])],
                   i + 1)

\* parse_cue after the decoder: text is what decode_bytes_with_fallback gave
parse_cue(text) ==
    IF text.none
    THEN [exc |-> "", status |-> 1, general |-> EmptyDict, tracks |-> <<>>]
    ELSE LET st == Durations(ParseLines([general |-> EmptyDict, tracks |-> <<>>, exc |-> ""],
                                        SplitLines(text.text), 1), 1)
         IN  [exc |-> st.exc, status |-> 0, general |-> st.general, tracks |-> st.tracks]

(***************************************************************************)
(* music_cmd.py: safe_name, make_split_cmd, process_onefile.  A command is *)
(* kept as the record of the pieces the code concatenates, in the order it *)
(* concatenates them; the key "t" is there only when -t is emitted.        *)
(***************************************************************************)
IllegalChars == <<"\\", "/", ":", "*", "?", "\"", "<", ">", "|">>

RECURSIVE ReplaceAll(_, _, _)
ReplaceAll(string, r, i) ==
    IF i > Len(r) THEN string ELSE ReplaceAll(Replace(string, r[i], "_"), r, i + 1)

\* a faulty safe_name: the name is returned as it came
safe_name_unchanged(string) == string

safe_name(string) == ReplaceAll(string, IllegalChars, 1)

\* a faulty int(x): round(x), to the nearest second
IntOfRounded(hundredths) ==
    IF hundredths >= 0 THEN (hundredths + 50) \div 100 ELSE -((50 - hundredths) \div 100)

\* int(x) of a float kept in hundredths: truncation toward zero
IntOf(hundredths) ==
    IF hundredths >= 0 THEN hundredths \div 100 ELSE -((-hundredths) \div 100)

\* "%.2d:%.2d:%.2d" % (n / 60 / 60, n / 60 % 60, n % 60) for an int n: the
\* divisions are float divisions and %d truncates each value toward zero
HMS(n) ==
    LET hours == IF n >= 0 THEN n \div 3600 ELSE -((-n) \div 3600)
    IN  Fmt2(hours) \o ":" \o Fmt2((n \div 60) % 60) \o ":" \o Fmt2(n % 60)

\* os.path.join(a, b)
PathJoin(a, b) ==
    IF StartsWith(b, "/") \/ a = "" THEN b
    ELSE IF EndsWith(a, "/") THEN a \o b
    ELSE a \o "/" \o b

\* os.path.basename(p)
Basename(p) == SubSeq(p, RFind(p, "/", Len(p)) + 1, Len(p))

RECURSIVE LeadingDots(_, _)
LeadingDots(s, i) ==
    IF i <= Len(s) /\ CharAt(s, i) = "." THEN LeadingDots(s, i + 1) ELSE i - 1

\* os.path.splitext(filename)[0]: the extension starts at the last dot that
\* is not one of the leading dots
SplitextName(filename) ==
    LET k == RFind(filename, ".", Len(filename))
    IN  IF k > LeadingDots(filename, 1) THEN SubSeq(filename, 1, k - 1) ELSE filename

\* pathlib.Path(f).suffix
Suffix(f) ==
    LET name == Basename(f)
        k == RFind(name, ".", Len(name))
    IN  IF k > 1 /\ k < Len(name) THEN SubSeq(name, k, Len(name)) ELSE ""

LowerChar(c) ==
    CASE c = "A" -> "a" [] c = "B" -> "b" [] c = "C" -> "c" [] c = "D" -> "d"
      [] c = "E" -> "e" [] c = "F" -> "f" [] c = "G" -> "g" [] c = "H" -> "h"
      [] c = "I" -> "i" [] c = "J" -> "j" [] c = "K" -> "k" [] c = "L" -> "l"
      [] c = "M" -> "m" [] c = "N" -> "n" [] c = "O" -> "o" [] c = "P" -> "p"
      [] c = "Q" -> "q" [] c = "R" -> "r" [] c = "S" -> "s" [] c = "T" -> "t"
      [] c = "U" -> "u" [] c = "V" -> "v" [] c = "W" -> "w" [] c = "X" -> "x"
      [] c = "Y" -> "y" [] c = "Z" -> "z" [] OTHER -> c

RECURSIVE Lower(_)
Lower(s) == IF s = "" THEN "" ELSE LowerChar(CharAt(s, 1)) \o Lower(Tail(s))

\* lines 28-38: the metadata dict, as its (key, value) pairs in insertion order
Metadata(track, n) ==
    <<  <<"artist", track["artist"]>>, <<"title", track["title"]>>,
        <<"album", track["album"]>>,
        <<"track", ToString(track["track"]) \o "/" \o ToString(n)>> >>
    \o (IF "genre" \in DOMAIN track THEN << <<"genre", track["genre"]>> >> ELSE <<>>)
    \o (IF "date" \in DOMAIN track THEN << <<"date", track["date"]>> >> ELSE <<>>)

\* lines 61-67: "%.2d - %s.flac" % (int(track["track"]), title.replace(":", "-"))
SplitFileName(track) ==
    safe_name(Fmt2(track["track"]) \o " - " \o Replace(track["title"], ":", "-") \o ".flac")

\* lines 50-55: -t is emitted exactly for a track that has a duration
WithDuration(cmd, track) ==
    IF "duration" \in DOMAIN track
    THEN Put(cmd, "t", HMS(IntOf(track["duration"]))) ELSE cmd

\* one iteration of the loop of lines 27-74
SplitCmd(track, n, ffmpeg_path, current_file, dir_out, verbose, overwrite) ==
    WithDuration(
        [ffmpeg   |-> ffmpeg_path,
         nostats  |-> ~verbose,
         input    |-> current_file,
         ss       |-> HMS(IntOf(track["start"])),
         metadata |-> Metadata(track, n),
         output   |-> PathJoin(dir_out, SplitFileName(track)),
         n        |-> ~overwrite],
        track)

\* the keys one iteration reads with track[...]: a missing one is a KeyError
SplitKeys == {"artist", "title", "album", "track", "start"}

RECURSIVE SplitLoop(_, _, _, _, _, _, _)
SplitLoop(acc, trks, i, ffmpeg_path, current_file, dir_out, verbose) ==
    IF acc.exc # "" \/ i > Len(trks) THEN acc
    ELSE IF ~(SplitKeys \subseteq DOMAIN trks[i])
    THEN [acc EXCEPT !.exc = "KeyError"]
    ELSE SplitLoop([acc EXCEPT !.cmds =
                       Append(@, SplitCmd(trks[i], Len(trks), ffmpeg_path, current_file,
                                          dir_out, verbose, FALSE))],
                   trks, i + 1, ffmpeg_path, current_file, dir_out, verbose)

make_split_cmd(trks, ffmpeg_path, current_file, dir_out, verbose) ==
    SplitLoop([exc |-> "", cmds |-> <<>>], trks, 1, ffmpeg_path, current_file,
              dir_out, verbose)

\* process_onefile: the output name drops the input's extension
OneFileOutput(file_in, dir_out) ==
    PathJoin(dir_out, safe_name(SplitextName(Basename(file_in)))) \o ".flac"

process_onefile(file_in, ffmpeg_path, dir_out) ==
    [ffmpeg |-> ffmpeg_path, input |-> file_in, output |-> OneFileOutput(file_in, dir_out)]

(***************************************************************************)
(* The cue sheets the parser is run on: optional album-level lines, an     *)
(* optional FILE line, an optional line between FILE and the first TRACK,  *)
(* and up to MaxTracks tracks, each with or without TITLE, PERFORMER and   *)
(* INDEX lines.  The empty file is the sheet with none of them.            *)
(***************************************************************************)
HeaderChoices ==
    { "",
      "PERFORMER \"Art\"\nTITLE \"Alb\"\n",
      "REM GENRE \"Rock\"\nREM DATE 1999\nPERFORMER \"Art\"\nTITLE \"Alb\"\n" }

FileChoices == { "", "FILE \"a.flac\" WAVE\n", "FILE \"a.flac\" BINARY\n" }

GapChoices == { "", "REM COMMENT \"caf@\"\n", "    TITLE \"Stray\"\n" }

TrackNumbers == { "01", "02" }

TrackTitleChoices == { "", "    TITLE \"A: B\"\n    PERFORMER \"P\"\n" }

TrackIndexChoices ==
    { "",
      "    INDEX 01 00:00:00\n",
      "    INDEX 00 02:03:00\n    INDEX 01 02:05:50\n" }

TrackTexts ==
    { "  TRACK " \o n \o " AUDIO\n" \o t \o i :
        n \in TrackNumbers, t \in TrackTitleChoices, i \in TrackIndexChoices }

RECURSIVE TrackSections(_)
TrackSections(k) ==
    IF k = 0 THEN { "" }
    ELSE LET shorter == TrackSections(k - 1)
         IN  shorter \cup { a \o b : a \in shorter, b \in TrackTexts }

CueFiles ==
    { h \o f \o g \o t :
        h \in HeaderChoices, f \in FileChoices, g \in GapChoices,
        t \in TrackSections(MaxTracks) }

\* what libmagic reports for a buffer, and what chardet reports: its
\* encoding ("" for None) and its confidence in hundredths
MagicEncodings == { "utf-8", "iso-8859-1", "binary" }

ChardetGuesses == { <<"", 0>>, <<"utf-8", 99>>, <<"ISO-8859-1", 73>>, <<"ISO-8859-1", 99>> }

\* cue.py line 14: every text the decoder may return for these bytes
DecodeResults(bytes) ==
    { decode_bytes_with_fallback(bytes, encoding_m, detected[1], detected[2]) :
        encoding_m \in MagicEncodings, detected \in ChardetGuesses }

NoResult == [exc |-> "", status |-> -1, general |-> EmptyDict, tracks |-> <<>>]

\* the variables of the directory walk, at rest
WalkAtRest ==
    /\ dry_run = FALSE
    /\ total_subdirs = 0
    /\ counter = 0
    /\ files = <<>>
    /\ mode = "none"
    /\ cue_idx = 0
    /\ processed_files = {}
    /\ formats = {}
    /\ total_formats = {}
    /\ bad_cues = <<>>
    /\ all_bad_cues = <<>>
    /\ only_cue_dirs = <<>>
    /\ submitted = 0
    /\ pool = <<>>
    /\ source_ref = {}

walk_vars == <<dry_run, total_subdirs, counter, files, mode, cue_idx, processed_files,
               formats, total_formats, bad_cues, all_bad_cues, only_cue_dirs, submitted,
               pool, source_ref>>

(***************************************************************************)
(* parse_cue run on one cue file, followed by the command synthesis that   *)
(* process_cue_files applies to the tracks it returned.                    *)
(***************************************************************************)
InitCue ==
    /\ pc = "cue_open"
    /\ content_bytes \in CueFiles
    /\ content_text = None
    /\ parsed = NoResult
    /\ tracks = <<>>
    /\ cmds = <<>>
    /\ raised = ""
    /\ WalkAtRest

\* cue.py lines 11-14: read the file, decode it
CueDecode ==
    /\ pc = "cue_open"
    /\ \E text \in DecodeResults(content_bytes) : content_text' = text
    /\ pc' = "cue_decoded"
    /\ UNCHANGED <<content_bytes, parsed, tracks, cmds, raised, walk_vars>>

\* cue.py lines 16-62
CueParse ==
    /\ pc = "cue_decoded"
    /\ parsed' = parse_cue(content_text)
    /\ raised' = parsed'.exc
    /\ pc' = IF parsed'.exc # "" THEN "raised" ELSE "cue_parsed"
    /\ UNCHANGED <<content_bytes, content_text, tracks, cmds, walk_vars>>

\* main.py line 87, for a cue whose audio file exists
CueSplit ==
    /\ pc = "cue_parsed"
    /\ parsed.status = 0
    /\ tracks' = parsed.tracks
    /\ LET r == make_split_cmd(parsed.tracks, "ffmpeg", "/in/d1/a.flac", "/out/d1", FALSE)
       IN  /\ cmds' = r.cmds
           /\ raised' = r.exc
           /\ pc' = IF r.exc # "" THEN "raised" ELSE "cue_split"
    /\ UNCHANGED <<content_bytes, content_text, parsed, walk_vars>>

NextCue == CueDecode \/ CueParse \/ CueSplit

SpecCue == InitCue /\ [][NextCue]_vars

(***************************************************************************)
(* make_split_cmd run on a track list as parse_cue builds it: every track  *)
(* has its own title, the declared numbers start at 1 or at 11, and the    *)
(* starts step by 125.5 s, by 1 h 2 min 5.99 s, or run backwards.          *)
(***************************************************************************)
SplitTitles ==
    { "", "A", " ", "-", "A: B", "\\", "/", ":", "*", "?", "\"", "<", ">", "|" }

SplitFirstNumbers == { 1, 11 }

SplitStartProfiles == { "album", "long", "backwards" }

SplitStart(profile, k, n) ==
    CASE profile = "album"     -> (k - 1) * 12550
      [] profile = "long"      -> (k - 1) * 372599
      [] profile = "backwards" -> (n - k) * 12550

\* the record parse_cue builds for the k-th of n tracks (cue.py lines 36-60)
SplitTrack(titles, first, profile, k) ==
    LET n == Len(titles)
        base == [artist |-> "Art", album |-> "Alb", file |-> "a.flac", file_type |-> "WAVE",
                 track |-> first + k - 1, title |-> titles[k],
                 start |-> SplitStart(profile, k, n)]
    IN  IF k < n
        THEN Put(base, "duration", SplitStart(profile, k + 1, n) - SplitStart(profile, k, n))
        ELSE base

TitleLists == UNION { [1..n -> SplitTitles] : n \in 0..MaxTracks }

SplitInputs ==
    { [k \in 1..Len(titles) |-> SplitTrack(titles, first, profile, k)] :
        titles \in TitleLists, first \in SplitFirstNumbers, profile \in SplitStartProfiles }

InitSplit ==
    /\ pc = "split_call"
    /\ tracks \in SplitInputs
    /\ cmds = <<>>
    /\ content_bytes = ""
    /\ content_text = None
    /\ parsed = NoResult
    /\ raised = ""
    /\ WalkAtRest

\* main.py line 87: cmds = make_split_cmd(tracks, ffmpeg_path, cue_music_file, dir_out_current)
SplitCall ==
    /\ pc = "split_call"
    /\ LET r == make_split_cmd(tracks, "ffmpeg", "/in/d1/a.flac", "/out/d1", FALSE)
       IN  /\ cmds' = r.cmds
           /\ raised' = r.exc
           /\ pc' = IF r.exc # "" THEN "raised" ELSE "split_done"
    /\ UNCHANGED <<content_bytes, content_text, parsed, tracks, walk_vars>>

NextSplit == SplitCall

SpecSplit == InitSplit /\ [][NextSplit]_vars

(***************************************************************************)
(* main.py: process_music_directory, process_cue_files,                    *)
(* process_individual_music_files and execute_commands.  The walk visits   *)
(* total_subdirs directories; what a directory holds is listed when the    *)
(* walk reaches it, and a cue file is read when its iteration opens it.    *)
(***************************************************************************)
DirListings ==
    { <<>>,
      <<"cover.jpg">>,
      <<"a.flac">>,
      <<"a.flac", "a.wav">>,
      <<"x.cue">>,
      <<"a.flac", "x.cue">>,
      <<"a.flac", "b.flac", "x.cue">>,
      <<"a.flac", "x.cue", "Y.CUE">>,
      <<"a.flac", "b.ape", "x.cue", "y.cue">> }

\* the cue sheets a directory of the walk may hold
WalkCueFiles ==
    { "",
      "PERFORMER \"Art\"\nTITLE \"Alb\"\nFILE \"a.flac\" WAVE\n  TRACK 01 AUDIO\n    TITLE \"A: B\"\n    INDEX 01 00:00:00\n  TRACK 02 AUDIO\n    TITLE \"T\"\n    INDEX 01 02:05:50\n",
      "PERFORMER \"Art\"\nTITLE \"Alb\"\nFILE \"b.ape\" APE\n  TRACK 01 AUDIO\n    TITLE \"T\"\n    INDEX 01 00:00:00\n",
      "PERFORMER \"Art\"\nTITLE \"Alb\"\nFILE \"gone.flac\" WAVE\n  TRACK 01 AUDIO\n    TITLE \"T\"\n    INDEX 01 00:00:00\n",
      "PERFORMER \"Art\"\nTITLE \"Alb\"\nFILE \"a.flac\" BINARY\n  TRACK 01 MODE1/2352\n    INDEX 01 00:00:00\n",
      "PERFORMER \"Art\"\nTITLE \"Alb\"\nFILE \"a.flac\" WAVE\n  TRACK 01 AUDIO\n    TITLE \"T\"\n" }

music_types == { ".flac", ".ape", ".wav", ".alac", ".tta" }

\* [f for f in files if pred(f)]
RECURSIVE Filter(_, _, _)
Filter(fs, cue, i) ==
    IF i > Len(fs) THEN <<>>
    ELSE LET suffix == Lower(Suffix(fs[i]))
             keep == IF cue THEN suffix = ".cue" ELSE suffix \in music_types
         IN  (IF keep THEN <<fs[i]>> ELSE <<>>) \o Filter(fs, cue, i + 1)

\* main.py lines 162-163
MusicFiles(fs) == Filter(fs, FALSE, 1)

CueSheets(fs) == Filter(fs, TRUE, 1)

music_files == MusicFiles(files)

cues == CueSheets(files)

\* the root os.walk yields for the n-th directory of the walk
Root(n) == "/in/d" \o ToString(n)

root == Root(counter)

dir_out_current == PathJoin("/out", Basename(root))

\* a faulty branch: < where the code has <=
CueDrivenStrict(music, cuelist) == Len(cuelist) > 0 /\ Len(music) < Len(cuelist)

\* main.py line 174: the directory is a cue-driven album
CueDriven(music, cuelist) == Len(cuelist) > 0 /\ Len(music) <= Len(cuelist)

\* os.path.isfile(path) for a path inside the directory being visited
IsFile(path) == \E i \in 1..Len(files) : PathJoin(root, files[i]) = path

cue_music_file == PathJoin(root, parsed.general["file"])

Init ==
    /\ pc = "walk"
    /\ dry_run \in BOOLEAN
    /\ total_subdirs \in 0..MaxDirs
    /\ counter = 0
    /\ files = <<>>
    /\ mode = "none"
    /\ cue_idx = 0
    /\ processed_files = {}
    /\ formats = {}
    /\ total_formats = {}
    /\ bad_cues = <<>>
    /\ all_bad_cues = <<>>
    /\ only_cue_dirs = <<>>
    /\ submitted = 0
    /\ pool = <<>>
    /\ source_ref = {}
    /\ content_bytes = ""
    /\ content_text = None
    /\ parsed = NoResult
    /\ tracks = <<>>
    /\ cmds = <<>>
    /\ raised = ""

cue_vars == <<content_bytes, content_text, parsed, tracks>>

\* main.py lines 153-180: the next directory of the walk, up to the branch
WalkDir ==
    /\ pc = "walk"
    /\ counter < total_subdirs
    /\ counter' = counter + 1
    /\ \E listing \in DirListings : files' = listing
    /\ only_cue_dirs' = IF Len(CueSheets(files')) > 0 /\ Len(MusicFiles(files')) = 0
                        THEN Append(only_cue_dirs, Root(counter')) ELSE only_cue_dirs
    /\ IF CueDriven(MusicFiles(files'), CueSheets(files'))
       THEN mode' = "cue" /\ pc' = "cue_loop"
       ELSE IF Len(MusicFiles(files')) > 0
       THEN mode' = "individual" /\ pc' = "individual"
       ELSE mode' = "none" /\ pc' = "walk"
    /\ cue_idx' = 1
    /\ processed_files' = {}
    /\ formats' = {}
    /\ bad_cues' = <<>>
    /\ cmds' = <<>>
    /\ submitted' = 0
    /\ pool' = <<>>
    /\ UNCHANGED <<dry_run, total_subdirs, total_formats, all_bad_cues, source_ref,
                   raised, cue_vars>>

\* what one iteration of the loop of process_cue_files (lines 74-95) comes to,
\* given what parse_cue returned and the commands make_split_cmd built
CueOutcome(result, split) ==
    IF result.exc # "" THEN "raise"
    ELSE IF result.status = 0
    THEN IF "file" \notin DOMAIN result.general THEN "raise"
         ELSE IF ~IsFile(PathJoin(root, result.general["file"])) THEN "bad"
         ELSE IF PathJoin(root, result.general["file"]) \in processed_files THEN "skip"
         ELSE IF split.exc # "" THEN "raise"
         ELSE IF dry_run THEN "processed"
         ELSE "execute"
    ELSE IF result.status = 1 THEN "bad"
    ELSE "skip"

\* where the thread of control goes after one iteration
CueNextPc(outcome) ==
    CASE outcome = "raise"   -> "raised"
      [] outcome = "execute" -> "submit"
      [] OTHER               -> "cue_loop"

\* lines 80-83 and 93-95: the cue is appended to bad_cues
CueIsBad(result) ==
    \/ result.status = 1
    \/ result.status = 0 /\ ~IsFile(PathJoin(root, result.general["file"]))

\* lines 85-87: the cue's audio file exists and was not split before, so its
\* commands are built (nextpc is where the iteration leaves the thread)
CueIsSplit(result, nextpc) ==
    /\ nextpc # "raised"
    /\ result.status = 0
    /\ IsFile(PathJoin(root, result.general["file"]))
    /\ PathJoin(root, result.general["file"]) \notin processed_files

\* main.py lines 74-95: one iteration, up to the call of execute_commands
CueIteration ==
    /\ pc = "cue_loop"
    /\ cue_idx <= Len(cues)
    /\ \E content \in WalkCueFiles :
          /\ content_bytes' = content
          /\ \E text \in DecodeResults(content) : content_text' = text
    /\ parsed' = parse_cue(content_text')
    /\ tracks' = parsed'.tracks
    /\ LET split == make_split_cmd(parsed'.tracks, "ffmpeg",
                                   PathJoin(root, parsed'.general["file"]),
                                   dir_out_current, FALSE)
       IN  /\ cmds' = IF CueOutcome(parsed', split) \in {"execute", "processed"}
                      THEN split.cmds ELSE <<>>
           /\ pc' = CueNextPc(CueOutcome(parsed', split))
    /\ raised' = IF pc' # "raised" THEN ""
                 ELSE IF parsed'.exc # "" THEN parsed'.exc
                 ELSE "KeyError"
    /\ bad_cues' = IF pc' = "cue_loop" /\ CueIsBad(parsed')
                   THEN Append(bad_cues, cues[cue_idx]) ELSE bad_cues
    /\ formats' = IF cmds' # <<>> \/ CueIsSplit(parsed', pc')
                  THEN formats \cup {Suffix(parsed'.general["file"])}
                  ELSE formats
    /\ processed_files' =
          IF pc' = "cue_loop" /\ CueIsSplit(parsed', pc')
          THEN processed_files \cup {PathJoin(root, parsed'.general["file"])}
          ELSE processed_files
    /\ cue_idx' = IF pc' = "cue_loop" THEN cue_idx + 1 ELSE cue_idx
    /\ submitted' = 0
    /\ pool' = <<>>
    /\ UNCHANGED <<dry_run, total_subdirs, counter, files, mode, total_formats,
                   all_bad_cues, only_cue_dirs, source_ref>>

\* main.py lines 96 and 175-177: the loop is over, the caller aggregates
CueLoopEnd ==
    /\ pc = "cue_loop"
    /\ cue_idx > Len(cues)
    /\ total_formats' = total_formats \cup formats
    /\ all_bad_cues' = all_bad_cues \o bad_cues
    /\ pc' = "walk"
    /\ UNCHANGED <<dry_run, total_subdirs, counter, files, mode, cue_idx, processed_files,
                   formats, bad_cues, only_cue_dirs, submitted, pool, source_ref, cmds,
                   raised, cue_vars>>

RECURSIVE OneFileCmds(_, _)
OneFileCmds(fs, i) ==
    IF i > Len(fs) THEN <<>>
    ELSE <<process_onefile(PathJoin(root, fs[i]), "ffmpeg", dir_out_current)>>
         \o OneFileCmds(fs, i + 1)

\* main.py lines 114-119: one command per music file of the directory
IndividualFiles ==
    /\ pc = "individual"
    /\ cmds' = OneFileCmds(music_files, 1)
    /\ pc' = IF dry_run THEN "walk" ELSE "submit"
    /\ submitted' = 0
    /\ pool' = <<>>
    /\ UNCHANGED <<dry_run, total_subdirs, counter, files, mode, cue_idx, processed_files,
                   formats, total_formats, bad_cues, all_bad_cues, only_cue_dirs,
                   source_ref, raised, cue_vars>>

pool_unchanged == <<dry_run, total_subdirs, counter, files, mode, cue_idx, processed_files,
                    formats, total_formats, bad_cues, all_bad_cues, only_cue_dirs,
                    source_ref, cmds, raised, cue_vars>>

\* main.py lines 211-213: executor.submit(os.system, cmd) for the next command
Submit ==
    /\ pc = "submit"
    /\ submitted < Len(cmds)
    /\ submitted' = submitted + 1
    /\ pool' = Append(pool, "queued")
    /\ pc' = pc
    /\ UNCHANGED pool_unchanged

Running == { i \in 1..Len(pool) : pool[i] = "running" }

\* a free worker process of the pool (max_workers=cpu_count()) takes a command
WorkerStart ==
    /\ Cardinality(Running) < CpuCount
    /\ \E i \in 1..Len(pool) :
          /\ pool[i] = "queued"
          /\ \A j \in 1..(i - 1) : pool[j] # "queued"
          /\ pool' = [pool EXCEPT ![i] = "running"]
    /\ UNCHANGED <<pc, submitted, pool_unchanged>>

\* os.system(cmd) returns in a worker
WorkerFinish ==
    /\ \E i \in Running : pool' = [pool EXCEPT ![i] = "done"]
    /\ UNCHANGED <<pc, submitted, pool_unchanged>>

\* a faulty pool: shutdown(wait=False), which returns at once
ShutdownNoWait == TRUE

\* main.py line 210: leaving the with block is executor.shutdown(wait=True),
\* which returns once every submitted command has finished
ShutdownReturns == \A i \in 1..Len(pool) : pool[i] = "done"

\* main.py lines 210-213: the loop is over and the with block is left
PoolShutdown ==
    /\ pc = "submit"
    /\ submitted = Len(cmds)
    /\ ShutdownReturns
    /\ pc' = "write_ref"
    /\ UNCHANGED <<submitted, pool, pool_unchanged>>

\* main.py lines 90 and 121: write_text_to_file(root, .../source_ref.txt)
WriteSourceRef ==
    /\ pc = "write_ref"
    /\ source_ref' = source_ref \cup {dir_out_current}
    /\ pc' = "after_ref"
    /\ UNCHANGED <<dry_run, total_subdirs, counter, files, mode, cue_idx, processed_files,
                   formats, total_formats, bad_cues, all_bad_cues, only_cue_dirs,
                   submitted, pool, cmds, raised, cue_vars>>

\* main.py lines 91-92 (the cue is done) and line 122 (the directory is done)
AfterSourceRef ==
    /\ pc = "after_ref"
    /\ IF mode = "cue"
       THEN /\ processed_files' = processed_files \cup {cue_music_file}
            /\ cue_idx' = cue_idx + 1
            /\ pc' = "cue_loop"
       ELSE /\ pc' = "walk"
            /\ UNCHANGED <<processed_files, cue_idx>>
    /\ UNCHANGED <<dry_run, total_subdirs, counter, files, mode, formats, total_formats,
                   bad_cues, all_bad_cues, only_cue_dirs, submitted, pool, source_ref,
                   cmds, raised, cue_vars>>

\* main.py lines 182-186: the walk is over, the summary is logged
Summary ==
    /\ pc = "walk"
    /\ counter = total_subdirs
    /\ pc' = "done"
    /\ UNCHANGED <<dry_run, total_subdirs, counter, files, mode, cue_idx, processed_files,
                   formats, total_formats, bad_cues, all_bad_cues, only_cue_dirs,
                   submitted, pool, source_ref, cmds, raised, cue_vars>>

Next ==
    \/ WalkDir
    \/ CueIteration
    \/ CueLoopEnd
    \/ IndividualFiles
    \/ Submit
    \/ WorkerStart
    \/ WorkerFinish
    \/ PoolShutdown
    \/ WriteSourceRef
    \/ AfterSourceRef
    \/ Summary

Spec == Init /\ [][Next]_vars

(***************************************************************************)
(* What the cue text says, read off its lines d (fixed columns of the      *)
(* canonical layout), for comparison with what parse_cue returns.          *)
(***************************************************************************)
CueLines == SplitLines(content_text.text)

IsFileLine(line) == StartsWith(line, "FILE ")

IsBinaryFileLine(line) == IsFileLine(line) /\ EndsWith(line, " BINARY")

IsTrackLine(line) == StartsWith(line, "  TRACK ")

IsIndex01Line(line) == StartsWith(line, "    INDEX 01 ")

IsTrackLevelLine(line) == StartsWith(line, "    ")

FileLineIdx(d) == { i \in 1..Len(d) : IsFileLine(d[i]) }

TrackLineIdx(d) == { i \in 1..Len(d) : IsTrackLine(d[i]) }

\* the line number of the k-th TRACK directive, trk being TrackLineIdx(d)
KthTrackLine(trk, k) ==
    CHOOSE i \in trk : Cardinality({ j \in trk : j <= i }) = k

\* the lines that belong to the TRACK directive of line i
TrackSegment(d, trk, i) ==
    { j \in (i + 1)..Len(d) : \A t \in trk : ~(i < t /\ t <= j) }

Index01Of(d, trk, i) == { j \in TrackSegment(d, trk, i) : IsIndex01Line(d[j]) }

\* "  TRACK NN AUDIO": the declared number
DeclaredNumber(line) == Int10(SubSeq(line, 9, 10))

\* "    INDEX 01 MM:SS:FF" in hundredths of a second
DeclaredStart(line) ==
    6000 * Int10(SubSeq(line, 14, 15)) + 100 * Int10(SubSeq(line, 17, 18))
        + Int10(SubSeq(line, 20, 21))

ParseReturned == parsed # NoResult

\* no track-level line stands between the FILE directive and the first TRACK
NoStrayLine(d, trk, f) ==
    \A j \in (f + 1)..Len(d) : IsTrackLevelLine(d[j]) => \E t \in trk : t < j

\* one FILE directive, not BINARY, then TRACK directives only, each with its
\* own INDEX 01 line
WellFormedCue(d) ==
    LET fs == FileLineIdx(d)
        trk == TrackLineIdx(d)
    IN  /\ Cardinality(fs) = 1
        /\ \A f \in fs :
              /\ ~IsBinaryFileLine(d[f])
              /\ \A t \in trk : f < t
              /\ NoStrayLine(d, trk, f)
        /\ \A t \in trk : Cardinality(Index01Of(d, trk, t)) = 1

TracksAsDeclared(d, trk, result) ==
    /\ Len(result) = Cardinality(trk)
    /\ \A k \in 1..Len(result) :
          LET line == KthTrackLine(trk, k)
          IN  /\ result[k]["track"] = DeclaredNumber(d[line])
              /\ \A j \in Index01Of(d, trk, line) :
                    result[k]["start"] = DeclaredStart(d[j])
              /\ k < Len(result) =>
                    /\ "duration" \in DOMAIN result[k]
                    /\ result[k]["duration"] = result[k + 1]["start"] - result[k]["start"]
              /\ k = Len(result) => "duration" \notin DOMAIN result[k]

\* C1: a cue text made of a non-BINARY FILE directive followed by N TRACK
\* directives, each followed by its own INDEX 01 line, parses with status ok
\* into exactly N tracks in the order of the TRACK directives; every track but
\* the last has duration = next start - own start, the last has no duration.
C1_TracksAndDurations ==
    ParseReturned =>
        LET d == CueLines
        IN  WellFormedCue(d) =>
                /\ parsed.exc = ""
                /\ parsed.status = 0
                /\ TracksAsDeclared(d, TrackLineIdx(d), parsed.tracks)

C1_Witness ==
    /\ pc = "cue_parsed"
    /\ Len(parsed.tracks) = 2
    /\ parsed.tracks[1]["track"] = 2
    /\ parsed.tracks[2]["track"] = 1
    /\ parsed.tracks[1]["duration"] = 12550
    /\ "duration" \notin DOMAIN parsed.tracks[2]
    /\ WellFormedCue(CueLines)

\* every FILE directive of the text carries the BINARY type tag
BinaryCue(d) ==
    LET fs == FileLineIdx(d)
    IN  fs # {} /\ \A f \in fs : IsBinaryFileLine(d[f])

HasLine(d, line) == \E i \in 1..Len(d) : d[i] = line

HeaderRecorded(d, line, key, value) ==
    HasLine(d, line) => (key \in DOMAIN parsed.general /\ parsed.general[key] = value)

\* C2: a cue sheet whose FILE type is BINARY yields status ok and zero tracks
\* whatever TRACK, TITLE, PERFORMER and INDEX lines follow, and the header
\* fields genre, date, artist, album, file and file_type are still recorded.
C2_BinaryNoTracks ==
    ParseReturned =>
        LET d == CueLines
        IN  BinaryCue(d) =>
                /\ parsed.exc = ""
                /\ parsed.status = 0
                /\ parsed.tracks = <<>>
                /\ HeaderRecorded(d, "REM GENRE \"Rock\"", "genre", "Rock")
                /\ HeaderRecorded(d, "REM DATE 1999", "date", "1999")
                /\ HeaderRecorded(d, "PERFORMER \"Art\"", "artist", "Art")
                /\ HeaderRecorded(d, "TITLE \"Alb\"", "album", "Alb")
                /\ HeaderRecorded(d, "FILE \"a.flac\" BINARY", "file", "a.flac")
                /\ HeaderRecorded(d, "FILE \"a.flac\" BINARY", "file_type", "BINARY")

C2_Witness ==
    /\ pc = "cue_parsed"
    /\ parsed.tracks = <<>>
    /\ "file_type" \in DOMAIN parsed.general
    /\ parsed.general["file_type"] = "BINARY"
    /\ LET d == CueLines
       IN  /\ BinaryCue(d)
           /\ Cardinality(TrackLineIdx(d)) = 2
           /\ \E i \in 1..Len(d) : IsIndex01Line(d[i])
           /\ HasLine(d, "    TITLE \"Stray\"")
           /\ HasLine(d, "REM GENRE \"Rock\"")

\* C3: a cue sheet that decodes to empty text makes parse_cue return the
\* parse-failed status (1) with an empty track list.
C3_EmptyTextParseFailed ==
    (ParseReturned /\ content_text.text = "") =>
        (parsed.status = 1 /\ parsed.tracks = <<>>)

\* a cue that is well formed except that some TRACK has no INDEX 01 line, and
\* whose tracks all have the title, artist and album the commands need
MissingIndexCue(d) ==
    LET fs == FileLineIdx(d)
        trk == TrackLineIdx(d)
    IN  /\ Cardinality(fs) = 1
        /\ \A f \in fs : ~IsBinaryFileLine(d[f]) /\ NoStrayLine(d, trk, f)
        /\ HasLine(d, "TITLE \"Alb\"")
        /\ \A t \in trk :
              /\ Cardinality(Index01Of(d, trk, t)) <= 1
              /\ \E j \in TrackSegment(d, trk, t) : StartsWith(d[j], "    TITLE ")
              /\ \E j \in TrackSegment(d, trk, t) : StartsWith(d[j], "    PERFORMER ")
        /\ \E t \in trk : Index01Of(d, trk, t) = {}

\* C8: a TRACK directive without an INDEX 01 line is tolerated: parse_cue
\* returns normally whatever the position of that track, and the command
\* synthesis that follows does not crash on it.
C8_MissingIndexTolerated ==
    raised # "" => ~MissingIndexCue(CueLines)

(***************************************************************************)
(* Reading a command back: "HH:MM:SS" as a number of seconds, and the      *)
(* file name a title should give.                                          *)
(***************************************************************************)
TwoDigitField(t, i) == Int10(SubSeq(t, i, i + 1))

\* t is HH:MM:SS, two digits each, and stands for the whole seconds of a
\* non-negative time given in hundredths: truncated, not rounded
RendersTruncated(t, hundredths) ==
    /\ Len(t) = 8
    /\ CharAt(t, 3) = ":" /\ CharAt(t, 6) = ":"
    /\ TwoDigitField(t, 1) >= 0
    /\ TwoDigitField(t, 4) \in 0..59
    /\ TwoDigitField(t, 7) \in 0..59
    /\ LET seconds == 3600 * TwoDigitField(t, 1) + 60 * TwoDigitField(t, 4)
                        + TwoDigitField(t, 7)
       IN  100 * seconds <= hundredths /\ hundredths < 100 * seconds + 100

SplitReturned == pc # "split_call"

\* C4: make_split_cmd emits exactly one command per track in track order;
\* each seeks at the track's start rendered as two-digit HH:MM:SS with the
\* sub-second part truncated, has -t rendered the same way exactly when the
\* track has a duration, and has no -t for the last track.  Starts 0 and
\* 125.5 give seek 00:00:00 with -t 00:02:05, then seek 00:02:05 and no -t.
C4_OneCommandPerTrack ==
    SplitReturned =>
        /\ raised = ""
        /\ Len(cmds) = Len(tracks)
        /\ \A i \in 1..Len(cmds) :
              /\ cmds[i].metadata[2] = <<"title", tracks[i]["title"]>>
              /\ cmds[i].metadata[4] =
                    <<"track", ToString(tracks[i]["track"]) \o "/" \o ToString(Len(tracks))>>
              /\ RendersTruncated(cmds[i].ss, tracks[i]["start"])
              /\ ("t" \in DOMAIN cmds[i]) <=> ("duration" \in DOMAIN tracks[i])
              /\ ("duration" \in DOMAIN tracks[i] /\ tracks[i]["duration"] >= 0) =>
                    RendersTruncated(cmds[i]["t"], tracks[i]["duration"])
              /\ i = Len(cmds) => "t" \notin DOMAIN cmds[i]
        /\ (Len(tracks) = 2 /\ tracks[1]["start"] = 0 /\ tracks[2]["start"] = 12550) =>
              /\ cmds[1].ss = "00:00:00"
              /\ cmds[1]["t"] = "00:02:05"
              /\ cmds[2].ss = "00:02:05"
              /\ "t" \notin DOMAIN cmds[2]

C4_Witness ==
    /\ pc = "split_done"
    /\ Len(tracks) = 2
    /\ tracks[1]["start"] = 0
    /\ tracks[2]["start"] = 12550
    /\ Len(cmds) = 2
    /\ cmds[1]["t"] = "00:02:05"
    /\ cmds[2].ss = "00:02:05"

IllegalSet == { "\\", "/", ":", "*", "?", "\"", "<", ">", "|" }

\* every illegal character of s replaced by an underscore
RECURSIVE Underscored(_)
Underscored(s) ==
    IF s = "" THEN ""
    ELSE (IF CharAt(s, 1) \in IllegalSet THEN "_" ELSE CharAt(s, 1)) \o Underscored(Tail(s))

\* every colon of s replaced by a hyphen, every other illegal character by
\* an underscore
RECURSIVE Hyphenated(_)
Hyphenated(s) ==
    IF s = "" THEN ""
    ELSE (IF CharAt(s, 1) = ":" THEN "-"
          ELSE IF CharAt(s, 1) \in IllegalSet THEN "_" ELSE CharAt(s, 1))
         \o Hyphenated(Tail(s))

TwoDigits(n) == IF n < 10 THEN "0" \o ToString(n) ELSE ToString(n)

\* C5 as stated: the output file of every track is "<NN> - <title>.<ext>"
\* with every illegal character of the title replaced by an underscore, so
\* that the title "A: B" gives the name part "A_ B".
C5_EveryIllegalCharUnderscore ==
    SplitReturned =>
        \A i \in 1..Len(cmds) :
            cmds[i].output = "/out/d1/" \o TwoDigits(tracks[i]["track"]) \o " - "
                                \o Underscored(tracks[i]["title"]) \o ".flac"

\* C5 as amended: the output file of every track is "<NN> - <title>.flac"
\* with every colon of the title replaced by a hyphen and every other illegal
\* character by an underscore; the title "A: B" gives the name part "A- B",
\* and no illegal character remains in the file name.
C5_ColonHyphenOthersUnderscore ==
    SplitReturned =>
        /\ raised = ""
        /\ Len(cmds) = Len(tracks)
        /\ \A i \in 1..Len(cmds) :
              /\ cmds[i].output = "/out/d1/" \o TwoDigits(tracks[i]["track"]) \o " - "
                                    \o Hyphenated(tracks[i]["title"]) \o ".flac"
              /\ \A c \in IllegalSet : Find(Basename(cmds[i].output), c, 1) = 0
              /\ tracks[i]["title"] = "A: B" =>
                    cmds[i].output = "/out/d1/" \o TwoDigits(tracks[i]["track"])
                                        \o " - A- B.flac"

C5_Witness ==
    /\ pc = "split_done"
    /\ Len(tracks) = 2
    /\ tracks[1]["title"] = "A: B"
    /\ tracks[2]["title"] = "?"
    /\ cmds[1].output = "/out/d1/01 - A- B.flac"
    /\ cmds[2].output = "/out/d1/02 - _.flac"
(***************************************************************************)
(* What a directory listing holds, counted on the file names themselves.   *)
(***************************************************************************)
AudioEndings == { ".flac", ".ape", ".wav", ".alac", ".tta" }

AudioCount(listing) ==
    Cardinality({ i \in 1..Len(listing) :
                    \E e \in AudioEndings : EndsWith(Lower(listing[i]), e) })

CueCount(listing) ==
    Cardinality({ i \in 1..Len(listing) : EndsWith(Lower(listing[i]), ".cue") })

IsCueAlbum(listing) == CueCount(listing) >= 1 /\ AudioCount(listing) <= CueCount(listing)

\* C6: a visited directory is treated as a cue-driven album exactly when it
\* has at least one cue file and no more audio files than cue files;
\* otherwise, if it has audio files, as individual files (2 audio + 1 cue is
\* individual files, 1 audio + 1 cue is cue-driven); it is never handled by
\* both paths, and a directory with neither kind of file gives no commands.
C6_Classification ==
    counter >= 1 =>
        /\ mode = "cue" <=> IsCueAlbum(files)
        /\ mode = "individual" <=> (~IsCueAlbum(files) /\ AudioCount(files) >= 1)
        /\ mode = "none" <=> (CueCount(files) = 0 /\ AudioCount(files) = 0)
        /\ (AudioCount(files) = 2 /\ CueCount(files) = 1) => mode = "individual"
        /\ (AudioCount(files) = 1 /\ CueCount(files) = 1) => mode = "cue"
        /\ pc \in {"cue_loop"} => mode = "cue"
        /\ pc \in {"individual"} => mode = "individual"
        /\ mode = "cue" => \A i \in 1..Len(cmds) : "ss" \in DOMAIN cmds[i]
        /\ mode = "individual" =>
              /\ Len(cmds) \in {0, AudioCount(files)}
              /\ \A i \in 1..Len(cmds) : "ss" \notin DOMAIN cmds[i]
        /\ mode = "none" => (cmds = <<>> /\ pool = <<>>)

C6_Witness ==
    /\ counter = 2
    /\ AudioCount(files) = 2
    /\ CueCount(files) = 1
    /\ mode = "individual"
    /\ Len(cmds) = 2
    /\ pc = "submit"

\* C7: no per-cue failure (decode failure, missing audio file, malformed or
\* partial cue data, an ok cue with zero tracks) aborts the run.
C7_NoFailureAborts == pc # "raised"

\* every command handed to the pool has finished
AllFinished == Len(pool) = Len(cmds) /\ \A i \in 1..Len(pool) : pool[i] = "done"

C10_DisjointOutputs ==
    pc = "submit" =>
        \A i, j \in 1..Len(cmds) : i # j => cmds[i].output # cmds[j].output
====
